---- MODULE Spec2Model ----
(***************************************************************************)
(* CLogger (src/Setup/Logger.cpp, Logger.h): a static helper that appends  *)
(* one timestamped line to a text file, opening and closing the file on    *)
(* every call.                                                             *)
(*                                                                         *)
(* Text is modelled as sequences of character codes: a narrow string is a  *)
(* sequence of bytes 0..255, a wide string a sequence of 16-bit code       *)
(* units.  File contents are the characters the stream inserts (the        *)
(* text-mode view of the file).  Log is modelled statement by statement;   *)
(* the flush that ofs.close() performs on a stream opened with             *)
(* ios_base::app is the runtime's "seek to the end, then write", two       *)
(* steps that another caller can separate.                                 *)
(***************************************************************************)
EXTENDS Integers, Sequences, FiniteSets, TLC

VARIABLES
    clock,      \* the broken-down local time localtime(&now) yields
    fs,         \* path -> [exists, data]: the files on disk
    fs0,        \* the filesystem before the first call (history)
    free,       \* bytes the storage can still take
    calls,      \* calls of Log still to be made
    pc,         \* per caller: the statement of Log it is at
    path,       \* per caller: Log's argument path
    level,      \* per caller: Log's argument level
    logMsg,     \* per caller: Log's argument logMsg (wide)
    strLogMsg,  \* per caller: the local strLogMsg (narrow)
    now,        \* per caller: the local now
    iostate,    \* per caller: ofs.rdstate(), a set of flags
    opened,     \* per caller: whether the constructor of ofs opened the file
    handle,     \* per caller: whether ofs holds an open file handle
    buf,        \* per caller: characters inserted into ofs, not yet flushed
    pos,        \* per caller: the offset the pending flush writes at
    pre,        \* per caller: the filesystem when the call began (history)
    steps,      \* per caller: the stream operations done so far (history)
    thrown,     \* per caller: an exception left Log
    written,    \* path -> the successful calls' (ts, lv, msg), in return order
    clean,      \* path -> no call that opened it has failed so far
    outcomes,   \* the (success, value returned) pairs the callers have seen
    overlap     \* two calls were in progress at the same time (history)

vars == <<clock, fs, fs0, free, calls, pc, path, level, logMsg, strLogMsg,
          now, iostate, opened, handle, buf, pos, pre, steps, thrown,
          written, clean, outcomes, overlap>>

locals == <<path, level, logMsg, strLogMsg, now, iostate, opened, handle,
            buf, pos, pre, steps>>

----------------------------------------------------------------------------
(* Bounds and inputs *)

\* Calls of Log in one behaviour.
MaxCalls == 2

Callers == {1, 2}

\* '\t' and '\n' of the insertion at line 24.
TAB == 9
NL == 10

\* A char holds 8 bits: the iterator-range constructor of std::string
\* converts each wchar_t to char.
CharRange == 256

Min(a, b) == IF a < b THEN a ELSE b

----------------------------------------------------------------------------
(* getCurrentDateTime *)

Digit(d) == 48 + d

\* strftime's %Y: the year in decimal, as many digits as it has.
RECURSIVE Dec(_)
Dec(n) == IF n < 10 THEN <<Digit(n)>> ELSE Dec(n \div 10) \o <<Digit(n % 10)>>

\* Mutant of Pad2: no zero padding (a format of %e / %k kind).
Pad2NoZero(n) == Dec(n)

\* strftime's %d, %m, %H, %M, %S: two digits, zero-padded.
Pad2(n) == <<Digit((n \div 10) % 10), Digit(n % 10)>>

\* strftime(buf, sizeof(buf), "[%d-%m-%Y %X]", &tstruct); %X is HH:MM:SS in
\* the C locale, the only locale the program runs in.
getCurrentDateTime(tm) ==
    <<91>> \o Pad2(tm.tm_mday) \o <<45>> \o Pad2(tm.tm_mon + 1) \o <<45>>
           \o Dec(tm.tm_year + 1900) \o <<32>>
           \o Pad2(tm.tm_hour) \o <<58>> \o Pad2(tm.tm_min) \o <<58>>
           \o Pad2(tm.tm_sec) \o <<93>>

\* Days of month tm_mon (0 = January) in year 1900 + tm_year.
DaysIn(mon, year) ==
    LET y == year + 1900
        leap == (y % 4 = 0) /\ ((y % 100 # 0) \/ (y % 400 = 0))
    IN  IF mon = 1 THEN (IF leap THEN 29 ELSE 28)
        ELSE IF mon \in {3, 5, 8, 10} THEN 30 ELSE 31

\* The values localtime produces for the times time(0) returns (the 64-bit
\* time_t of the runtime covers 1970 to 3000): every day of every month,
\* every hour, minute and second, and the first and last years, each around
\* one base time, and the corners of all fields together.
BaseTm == [tm_mday |-> 5, tm_mon |-> 2, tm_year |-> 124,
           tm_hour |-> 14, tm_min |-> 2, tm_sec |-> 31]

TmSet ==
    LET days == { [BaseTm EXCEPT !.tm_mday = d, !.tm_mon = m, !.tm_year = y] :
                      d \in 1..31, m \in 0..11, y \in {70, 100, 124} }
        hours == { [BaseTm EXCEPT !.tm_hour = h] : h \in 0..23 }
        mins == { [BaseTm EXCEPT !.tm_min = x] : x \in 0..59 }
        secs == { [BaseTm EXCEPT !.tm_sec = x] : x \in 0..59 }
        years == { [BaseTm EXCEPT !.tm_year = y] : y \in {70, 99, 100, 1100} }
        corners == [tm_mday : {1, 31}, tm_mon : {0, 11}, tm_year : {70, 1100},
                    tm_hour : {0, 23}, tm_min : {0, 59}, tm_sec : {0, 59}]
    IN  { tm \in days \cup hours \cup mins \cup secs \cup years \cup corners :
              tm.tm_mday <= DaysIn(tm.tm_mon, tm.tm_year) }

\* The clock readings of the main specification, in the order they pass.
Times ==
    << BaseTm,
       [tm_mday |-> 31, tm_mon |-> 11, tm_year |-> 1100,
        tm_hour |-> 23, tm_min |-> 59, tm_sec |-> 59] >>

----------------------------------------------------------------------------
(* The narrowing of the message and the line *)

\* Mutant of NarrowChar: a conversion that substitutes '?' for what does
\* not fit in a byte.
NarrowSaturate(wc) == IF wc >= CharRange THEN 63 ELSE wc

\* One wchar_t converted to char: the low 8 bits.
NarrowChar(wc) == wc % CharRange

\* std::string strLogMsg(ws.begin(), ws.end());
Narrow(ws) == [i \in 1..Len(ws) |-> NarrowChar(ws[i])]

\* Mutant of LogLine: the final '\n' is not inserted.
LogLineNoNewline(ts, lv, msg) == ts \o <<TAB>> \o lv \o <<TAB>> \o msg

\* ofs << now << '\t' << std::string(level) << '\t' << strLogMsg << '\n';
LogLine(ts, lv, msg) == ts \o <<TAB>> \o lv \o <<TAB>> \o msg \o <<NL>>

\* The level labels the callers pass ("I", "ER").
Levels == { <<73>>, <<69, 82>> }

\* The messages the callers pass: empty, "A", 'A' with U+0141 (equal to 'A'
\* mod 256), a tab, a newline, U+0109 and U+010A (a tab and a newline
\* mod 256), and U+20AC with U+00E9.
Msgs == { <<>>, <<65>>, <<65, 321>>, <<9>>, <<10>>, <<265>>, <<266>>,
          <<8364, 233>> }

----------------------------------------------------------------------------
(* The filesystem *)

OkPath == "log.txt"
NoDirPath == "missing/log.txt"
DeniedPath == "readonly/log.txt"
Paths == {OkPath, NoDirPath, DeniedPath}

Absent == [exists |-> FALSE, data |-> <<>>]
File(d) == [exists |-> TRUE, data |-> d]

\* Whether the path can be opened for append: its parent directory exists
\* and may be written.
CanOpen(p) == p = OkPath

\* Mutant of OpenContent: ios_base::out alone, which truncates.
OpenTruncate(f) == File(<<>>)

\* ios_base::out | ios_base::app: an existing file keeps its content, a
\* missing one is created empty.
OpenContent(f) == IF f.exists THEN f ELSE File(<<>>)

\* Mutant of SeekPos: the write starts at the beginning of the file.
SeekStart(data) == 0

\* Append mode: every write goes to the end of the file.
SeekPos(data) == Len(data)

\* The file after bytes are written at offset p.
WriteAt(data, p, bytes) ==
    SubSeq(data, 1, p) \o bytes \o SubSeq(data, p + Len(bytes) + 1, Len(data))

\* Mutant of ExceptionMask: ofs.exceptions(failbit) was requested.
MaskFailbit == {"failbit"}

\* The exceptions mask of a default-constructed stream: goodbit, so no
\* stream failure throws.
ExceptionMask == {}

Throws(st) == st \cap ExceptionMask # {}

\* Mutant of CloseResult: close() leaves the handle as it was.
CloseKeeps(h) == h

\* The handle after ofs.close().
CloseResult(h) == FALSE

\* What Log returns to its caller: it is declared void.
ReturnValue(st) == "void"

\* A call succeeded when the stream never left the good state.
Succeeded(c) == iostate[c] = {}

----------------------------------------------------------------------------
(* State *)

NoLocals ==
    /\ path = [c \in Callers |-> OkPath]
    /\ level = [c \in Callers |-> <<>>]
    /\ logMsg = [c \in Callers |-> <<>>]
    /\ strLogMsg = [c \in Callers |-> <<>>]
    /\ now = [c \in Callers |-> <<>>]
    /\ iostate = [c \in Callers |-> {}]
    /\ opened = [c \in Callers |-> FALSE]
    /\ handle = [c \in Callers |-> FALSE]
    /\ buf = [c \in Callers |-> <<>>]
    /\ pos = [c \in Callers |-> 0]
    /\ steps = [c \in Callers |-> <<>>]

AtRest ==
    /\ pc = [c \in Callers |-> "idle"]
    /\ NoLocals
    /\ pre = [c \in Callers |-> fs]
    /\ thrown = [c \in Callers |-> FALSE]
    /\ written = [p \in Paths |-> <<>>]
    /\ clean = [p \in Paths |-> TRUE]
    /\ outcomes = {}
    /\ overlap = FALSE
    /\ fs0 = fs

\* The log file before the first call: missing, or left by an earlier run.
StartFiles == { Absent, File(<<88>>) }

\* Free storage at the start: none, less than a timestamp, about one line,
\* more than the calls need.
FreeChoices == { 0, 12, 30, 1000 }

Init ==
    /\ clock = Times[1]
    /\ fs \in { [p \in Paths |-> IF p = OkPath THEN f ELSE Absent] :
                    f \in StartFiles }
    /\ free \in FreeChoices
    /\ calls = MaxCalls
    /\ AtRest

----------------------------------------------------------------------------
(* CLogger::Log, statement by statement *)

\* Where control goes after a stream operation left the stream in state st:
\* on to the next statement, or out of Log by an exception.
NextPc(st, next) == IF Throws(st) THEN "unwound" ELSE next

\* Lines 17-22: the call begins; ws and strLogMsg are built, the time read.
Enter(c, p, lv, m) ==
    /\ pc[c] = "idle"
    /\ calls > 0
    /\ calls' = calls - 1
    /\ path' = [path EXCEPT ![c] = p]
    /\ level' = [level EXCEPT ![c] = lv]
    /\ logMsg' = [logMsg EXCEPT ![c] = m]
    /\ strLogMsg' = [strLogMsg EXCEPT ![c] = Narrow(m)]
    /\ now' = [now EXCEPT ![c] = getCurrentDateTime(clock)]
    /\ pre' = [pre EXCEPT ![c] = fs]
    /\ steps' = [steps EXCEPT ![c] = <<>>]
    /\ overlap' = (overlap \/ \E d \in Callers \ {c} : pc[d] # "idle")
    /\ pc' = [pc EXCEPT ![c] = "open"]
    /\ UNCHANGED <<clock, fs, fs0, free, iostate, opened, handle, buf, pos,
                   thrown, written, clean, outcomes>>

\* Line 23: std::ofstream ofs(path, ios_base::out | ios_base::app).
Open(c) ==
    /\ pc[c] = "open"
    /\ LET ok == CanOpen(path[c])
           st == IF ok THEN {} ELSE {"failbit"}
       IN  /\ opened' = [opened EXCEPT ![c] = ok]
           /\ handle' = [handle EXCEPT ![c] = ok]
           /\ fs' = IF ok THEN [fs EXCEPT ![path[c]] = OpenContent(@)]
                          ELSE fs
           /\ iostate' = [iostate EXCEPT ![c] = st]
           /\ thrown' = [thrown EXCEPT ![c] = Throws(st)]
           /\ pc' = [pc EXCEPT ![c] = NextPc(st, "insert")]
    /\ steps' = [steps EXCEPT ![c] = Append(@, "open")]
    /\ UNCHANGED <<clock, fs0, free, calls, path, level, logMsg, strLogMsg,
                   now, buf, pos, pre, written, clean, outcomes, overlap>>

\* Line 24: the four insertions.  A stream that is not good inserts
\* nothing; a good one holds the line in its buffer.
Insert(c) ==
    /\ pc[c] = "insert"
    /\ buf' = [buf EXCEPT ![c] =
                  IF iostate[c] = {}
                  THEN LogLine(now[c], level[c], strLogMsg[c]) ELSE <<>>]
    /\ steps' = [steps EXCEPT ![c] = Append(@, "write")]
    /\ pc' = [pc EXCEPT ![c] = "close"]
    /\ UNCHANGED <<clock, fs, fs0, free, calls, path, level, logMsg,
                   strLogMsg, now, iostate, opened, handle, pos, pre, thrown,
                   written, clean, outcomes, overlap>>

\* Line 26, ofs.close(), first part: with no open file close() fails and
\* sets failbit; with one, the flush seeks to where it will write.
FlushSeek(c) ==
    /\ pc[c] = "close"
    /\ steps' = [steps EXCEPT ![c] = Append(@, "close")]
    /\ IF handle[c]
       THEN /\ pos' = [pos EXCEPT ![c] = SeekPos(fs[path[c]].data)]
            /\ pc' = [pc EXCEPT ![c] = "flush"]
            /\ UNCHANGED <<iostate, thrown>>
       ELSE LET st == iostate[c] \cup {"failbit"}
            IN  /\ iostate' = [iostate EXCEPT ![c] = st]
                /\ thrown' = [thrown EXCEPT ![c] = Throws(st)]
                /\ pc' = [pc EXCEPT ![c] = NextPc(st, "return")]
                /\ pos' = pos
    /\ UNCHANGED <<clock, fs, fs0, free, calls, path, level, logMsg,
                   strLogMsg, now, opened, handle, buf, pre, written, clean,
                   outcomes, overlap>>

\* Line 26, second part: the buffered line is written at the offset found;
\* the storage takes as many bytes as it has room for.
FlushWrite(c) ==
    /\ pc[c] = "flush"
    /\ LET old == fs[path[c]].data
           room == free + (Len(old) - pos[c])
           n == Min(Len(buf[c]), room)
           new == WriteAt(old, pos[c], SubSeq(buf[c], 1, n))
       IN  /\ fs' = [fs EXCEPT ![path[c]] = File(new)]
           /\ free' = free - (Len(new) - Len(old))
           /\ iostate' = [iostate EXCEPT ![c] =
                             IF n < Len(buf[c]) THEN @ \cup {"badbit"} ELSE @]
    /\ pc' = [pc EXCEPT ![c] = "fclose"]
    /\ UNCHANGED <<clock, fs0, calls, path, level, logMsg, strLogMsg, now,
                   opened, handle, buf, pos, pre, steps, thrown, written,
                   clean, outcomes, overlap>>

\* Line 26, last part: the handle is closed whether or not the flush
\* succeeded; a failed flush makes close() set failbit.
CloseHandle(c) ==
    /\ pc[c] = "fclose"
    /\ handle' = [handle EXCEPT ![c] = CloseResult(@)]
    /\ LET st == IF iostate[c] = {} THEN {} ELSE iostate[c] \cup {"failbit"}
       IN  /\ iostate' = [iostate EXCEPT ![c] = st]
           /\ thrown' = [thrown EXCEPT ![c] = Throws(st)]
           /\ pc' = [pc EXCEPT ![c] = NextPc(st, "return")]
    /\ UNCHANGED <<clock, fs, fs0, free, calls, path, level, logMsg,
                   strLogMsg, now, opened, buf, pos, pre, steps, written,
                   clean, outcomes, overlap>>

\* Line 27: Log returns; its locals are destroyed (the destructor of ofs
\* closes a handle still open) and the caller has what Log returned.
Return(c) ==
    /\ pc[c] \in {"return", "unwound"}
    /\ outcomes' = outcomes \cup
           {[ok |-> Succeeded(c), result |-> ReturnValue(iostate[c])]}
    /\ written' = IF Succeeded(c)
                  THEN [written EXCEPT ![path[c]] =
                           Append(@, [ts |-> now[c], lv |-> level[c],
                                      msg |-> strLogMsg[c]])]
                  ELSE written
    /\ clean' = IF opened[c] /\ ~Succeeded(c)
                THEN [clean EXCEPT ![path[c]] = FALSE]
                ELSE clean
    /\ pc' = [pc EXCEPT ![c] = "idle"]
    /\ path' = [path EXCEPT ![c] = OkPath]
    /\ level' = [level EXCEPT ![c] = <<>>]
    /\ logMsg' = [logMsg EXCEPT ![c] = <<>>]
    /\ strLogMsg' = [strLogMsg EXCEPT ![c] = <<>>]
    /\ now' = [now EXCEPT ![c] = <<>>]
    /\ iostate' = [iostate EXCEPT ![c] = {}]
    /\ opened' = [opened EXCEPT ![c] = FALSE]
    /\ handle' = [handle EXCEPT ![c] = FALSE]
    /\ buf' = [buf EXCEPT ![c] = <<>>]
    /\ pos' = [pos EXCEPT ![c] = 0]
    /\ pre' = [pre EXCEPT ![c] = fs]
    /\ steps' = [steps EXCEPT ![c] = <<>>]
    /\ UNCHANGED <<clock, fs, fs0, free, calls, thrown, overlap>>

\* Time passes between calls.
Tick ==
    /\ \E i \in 1..(Len(Times) - 1) : clock = Times[i] /\ clock' = Times[i + 1]
    /\ UNCHANGED <<fs, fs0, free, calls, pc, locals, thrown, written, clean,
                   outcomes, overlap>>

----------------------------------------------------------------------------
(* Specifications *)

\* One caller, calls strictly one after the other.
Next ==
    \/ \E p \in Paths, lv \in Levels, m \in Msgs : Enter(1, p, lv, m)
    \/ Open(1)
    \/ Insert(1)
    \/ FlushSeek(1)
    \/ FlushWrite(1)
    \/ CloseHandle(1)
    \/ Return(1)
    \/ Tick

Spec == Init /\ [][Next]_vars

\* Two callers (threads, or processes sharing the disk) on the same path.
ConcMsgs == { <<65>>, <<66, 67>> }

ConcInit ==
    /\ clock = Times[1]
    /\ fs \in { [p \in Paths |-> IF p = OkPath THEN f ELSE Absent] :
                    f \in StartFiles }
    /\ free = 1000
    /\ calls = MaxCalls
    /\ AtRest

ConcNext ==
    \E c \in Callers :
        \/ \E m \in ConcMsgs : Enter(c, OkPath, <<73>>, m)
        \/ Open(c)
        \/ Insert(c)
        \/ FlushSeek(c)
        \/ FlushWrite(c)
        \/ CloseHandle(c)
        \/ Return(c)

ConcSpec == ConcInit /\ [][ConcNext]_vars

\* One call, made at any of the clock readings of TmSet.
TimeInit ==
    /\ clock \in TmSet
    /\ fs = [p \in Paths |-> Absent]
    /\ free = 1000
    /\ calls = 1
    /\ AtRest

TimeNext ==
    \/ Enter(1, OkPath, <<73>>, <<65>>)
    \/ Open(1)
    \/ Insert(1)
    \/ FlushSeek(1)
    \/ FlushWrite(1)
    \/ CloseHandle(1)
    \/ Return(1)

TimeSpec == TimeInit /\ [][TimeNext]_vars

----------------------------------------------------------------------------
(* Vocabulary of the properties *)

RECURSIVE Concat(_)
Concat(ss) == IF ss = <<>> THEN <<>> ELSE Head(ss) \o Concat(Tail(ss))

RECURSIVE Count(_, _)
Count(s, x) ==
    IF s = <<>> THEN 0
    ELSE (IF Head(s) = x THEN 1 ELSE 0) + Count(Tail(s), x)

\* The fields of s between the occurrences of the separator d.
RECURSIVE Split(_, _)
Split(s, d) ==
    IF s = <<>> THEN << <<>> >>
    ELSE LET r == Split(Tail(s), d)
         IN  IF Head(s) = d THEN << <<>> >> \o r
             ELSE << <<Head(s)>> \o Head(r) >> \o Tail(r)

IsPrefix(a, b) == Len(a) <= Len(b) /\ SubSeq(b, 1, Len(a)) = a

Has(s, x) == \E i \in 1..Len(s) : s[i] = x

\* The line of section 6 of the specification: timestamp, tab, level, tab,
\* message, newline.
Entry(ts, lv, msg) == ts \o <<9>> \o lv \o <<9>> \o msg \o <<10>>

EntryOf(r) == Entry(r.ts, r.lv, r.msg)

Entries(rs) == Concat([i \in 1..Len(rs) |-> EntryOf(rs[i])])

\* The file of caller c's path now, and when c's call began.
Data(c) == fs[path[c]].data
PreData(c) == pre[c][path[c]].data

\* What caller c's call has added to its file so far.
Appended(c) == SubSeq(Data(c), Len(PreData(c)) + 1, Len(Data(c)))

\* A path that did not exist before the first call and on which every call
\* that opened it succeeded.
FreshAndClean(p) == ~fs0[p].exists /\ clean[p]

AllIdle == \A c \in Callers : pc[c] = "idle"

----------------------------------------------------------------------------
(* C1 *)

\* C1 as stated: after N successful sequential calls on a fresh path the
\* file holds exactly N newline-terminated lines, the i-th being the entry
\* of the i-th call.
C1_ExactlyNLines ==
    \A p \in Paths :
        (AllIdle /\ FreshAndClean(p) /\ written[p] # <<>>) =>
            /\ fs[p].exists
            /\ fs[p].data = Entries(written[p])
            /\ Count(fs[p].data, NL) = Len(written[p])

\* C1 (amended): after N successful sequential calls on a fresh path the
\* file is exactly the N entries timestamp TAB level TAB narrowed-message
\* NEWLINE in call order (and is absent when N = 0); it holds exactly N
\* newline-terminated lines when no level and no narrowed message holds a
\* newline byte.
C1_AppendInOrder ==
    \A p \in Paths :
        (AllIdle /\ FreshAndClean(p)) =>
            /\ (written[p] = <<>>) <=> ~fs[p].exists
            /\ fs[p].data = Entries(written[p])
            /\ (\A i \in 1..Len(written[p]) :
                    ~Has(written[p][i].lv, NL) /\ ~Has(written[p][i].msg, NL))
               => Count(fs[p].data, NL) = Len(written[p])

C1_Witness ==
    /\ AllIdle
    /\ FreshAndClean(OkPath)
    /\ Len(written[OkPath]) >= 2
    /\ written[OkPath][1] # written[OkPath][2]
    /\ Count(fs[OkPath].data, NL) = 2

----------------------------------------------------------------------------
(* C2 *)

\* C2: Log never overwrites.  From the open on, the content the file had
\* when the call began is a prefix of its content, every other file is as
\* it was, and a successful call has extended the file by exactly its
\* entry.
C2_NeverOverwrites ==
    \A c \in Callers :
        (pc[c] \in {"insert", "close", "flush", "fclose", "return"}) =>
            /\ IsPrefix(PreData(c), Data(c))
            /\ \A q \in Paths \ {path[c]} : fs[q] = pre[c][q]
            /\ (pc[c] = "return" /\ Succeeded(c)) =>
                   Data(c) = PreData(c) \o Entry(now[c], level[c], strLogMsg[c])

\* The second of two successful calls on the same path is about to return:
\* both entries are in the file, the first call's first.
C2_Witness ==
    /\ pc[1] = "return"
    /\ Succeeded(1)
    /\ ~fs0[OkPath].exists
    /\ Len(written[OkPath]) = 1
    /\ PreData(1) = EntryOf(written[OkPath][1])
    /\ Data(1) = PreData(1) \o Entry(now[1], level[1], strLogMsg[1])

----------------------------------------------------------------------------
(* C3 *)

\* C3 as stated: when neither the level nor the (wide) message holds a tab
\* or a newline, the line a successful call wrote splits on the tab into
\* exactly the three fields timestamp, level, message, and holds one
\* newline, at its end.
C3_FieldIntegrity ==
    \A c \in Callers :
        (/\ pc[c] = "return" /\ Succeeded(c)
         /\ ~Has(level[c], TAB) /\ ~Has(level[c], NL)
         /\ ~Has(logMsg[c], TAB) /\ ~Has(logMsg[c], NL)) =>
            LET line == Appended(c)
            IN  /\ line # <<>>
                /\ line[Len(line)] = NL
                /\ Count(line, NL) = 1
                /\ Split(SubSeq(line, 1, Len(line) - 1), TAB)
                       = <<now[c], level[c], strLogMsg[c]>>

----------------------------------------------------------------------------
(* C4 *)

\* C4 as stated: what a failed call returns to its caller differs from what
\* a successful call returns.
C4_FailureReported ==
    \A a \in outcomes, b \in outcomes :
        (a.ok /\ ~b.ok) => a.result # b.result

----------------------------------------------------------------------------
(* C5 *)

\* C5: once the open has failed, the whole filesystem and the free storage
\* stay as they were when the call began, nothing is buffered, no handle is
\* held and no exception leaves Log: the call reaches its return.
C5_FailedOpenChangesNothing ==
    \A c \in Callers :
        (pc[c] \notin {"idle", "open"} /\ ~opened[c]) =>
            /\ fs = pre[c]
            /\ \A p \in Paths : ~CanOpen(p) => ~fs[p].exists
            /\ buf[c] = <<>>
            /\ ~handle[c]
            /\ ~thrown[c]
            /\ pc[c] # "unwound"

\* A call whose open failed is about to return, after an earlier call
\* wrote its entry to the valid path: that file is untouched.
C5_Witness ==
    /\ pc[1] = "return"
    /\ ~opened[1]
    /\ path[1] = NoDirPath
    /\ Len(written[OkPath]) = 1
    /\ fs[OkPath].data = fs0[OkPath].data \o Entries(written[OkPath])

----------------------------------------------------------------------------
(* C6 *)

\* C6 as stated: a call on a missing path whose directory can be written
\* leaves a file that consists of exactly the call's entry.
C6_CreatesWithOneLine ==
    \A c \in Callers :
        (pc[c] = "return" /\ ~pre[c][path[c]].exists /\ CanOpen(path[c])) =>
            /\ fs[path[c]].exists
            /\ Data(c) = Entry(now[c], level[c], strLogMsg[c])

\* C6 (amended): such a call creates the file; when its write succeeds the
\* file is exactly the call's entry, from offset 0; when the write fails
\* (the storage is full) the file holds a proper prefix of the entry,
\* possibly nothing.
C6_CreatesPrefixOfLine ==
    \A c \in Callers :
        (pc[c] = "return" /\ ~pre[c][path[c]].exists /\ CanOpen(path[c])) =>
            LET e == Entry(now[c], level[c], strLogMsg[c])
            IN  /\ fs[path[c]].exists
                /\ Succeeded(c) => Data(c) = e
                /\ ~Succeeded(c) => (IsPrefix(Data(c), e) /\ Data(c) # e)

C6_Witness ==
    /\ pc[1] = "return"
    /\ ~pre[1][OkPath].exists
    /\ path[1] = OkPath
    /\ Succeeded(1)
    /\ fs[OkPath].exists
    /\ Data(1) = Entry(now[1], level[1], strLogMsg[1])

----------------------------------------------------------------------------
(* C7 *)

\* What the calls have added to the file the first call found.
NewData(p) == SubSeq(fs[p].data, Len(fs0[p].data) + 1, Len(fs[p].data))

\* C7: calls that never overlapped leave the earlier content followed by
\* their entries in call order, so a torn or lost line needs an overlap.
C7_TornOnlyIfOverlapped ==
    (AllIdle /\ ~overlap) =>
        /\ IsPrefix(fs0[OkPath].data, fs[OkPath].data)
        /\ NewData(OkPath) = Entries(written[OkPath])

\* Two overlapping calls both returned success, and the file does not hold
\* their two entries in either order.
C7_Witness ==
    /\ AllIdle
    /\ overlap
    /\ Len(written[OkPath]) = 2
    /\ ~ (/\ IsPrefix(fs0[OkPath].data, fs[OkPath].data)
          /\ \/ NewData(OkPath) = Entries(written[OkPath])
             \/ NewData(OkPath) = Entries(<<written[OkPath][2],
                                            written[OkPath][1]>>))

\* Further reachable states of C7: both callers hold the file open at once;
\* the entry of the call that returned first comes second in the file; a
\* line is lost whole; a line is torn.
C7_BothOpen == handle[1] /\ handle[2] /\ path[1] = path[2]

C7_ReturnedFirstWrittenLast ==
    /\ AllIdle
    /\ Len(written[OkPath]) = 2
    /\ written[OkPath][1] # written[OkPath][2]
    /\ NewData(OkPath) = Entries(<<written[OkPath][2], written[OkPath][1]>>)

C7_LostLine ==
    /\ AllIdle
    /\ Len(written[OkPath]) = 2
    /\ Len(NewData(OkPath)) = Len(EntryOf(written[OkPath][2]))

C7_TornLine ==
    /\ AllIdle
    /\ Len(written[OkPath]) = 2
    /\ Count(NewData(OkPath), NL) = 2
    /\ Len(NewData(OkPath)) < Len(Entries(written[OkPath]))

----------------------------------------------------------------------------
(* C8 *)

IsDigit(x) == x \in 48..57

\* The number two digit characters spell.
TwoDigits(s, i) == (s[i] - 48) * 10 + (s[i + 1] - 48)

\* [DD-MM-YYYY HH:MM:SS] for the clock reading tm.
IsStampOf(s, tm) ==
    /\ Len(s) = 21
    /\ s[1] = 91 /\ s[4] = 45 /\ s[7] = 45 /\ s[12] = 32
    /\ s[15] = 58 /\ s[18] = 58 /\ s[21] = 93
    /\ \A i \in {2, 3, 5, 6, 8, 9, 10, 11, 13, 14, 16, 17, 19, 20} :
           IsDigit(s[i])
    /\ TwoDigits(s, 2) = tm.tm_mday
    /\ TwoDigits(s, 5) = tm.tm_mon + 1
    /\ TwoDigits(s, 8) * 100 + TwoDigits(s, 10) = tm.tm_year + 1900
    /\ TwoDigits(s, 13) = tm.tm_hour
    /\ TwoDigits(s, 16) = tm.tm_min
    /\ TwoDigits(s, 19) = tm.tm_sec
    /\ ~Has(s, TAB) /\ ~Has(s, NL)

\* C8: for every clock reading the timestamp is the 21 characters
\* [DD-MM-YYYY HH:MM:SS] of that reading, zero-padded, without tab or
\* newline, and it is the first field of the line Log buffers and writes.
C8_TimestampFormat ==
    \A c \in Callers :
        (pc[c] # "idle") =>
            /\ IsStampOf(now[c], clock)
            /\ buf[c] # <<>> => Split(buf[c], TAB)[1] = now[c]
            /\ pc[c] = "return" => Split(Data(c), TAB)[1] = now[c]

\* A call made on the 9th of January has written its line: day and month
\* are zero-padded.
C8_Witness ==
    /\ pc[1] = "return"
    /\ clock.tm_mday = 9 /\ clock.tm_mon = 0
    /\ Succeeded(1)
    /\ SubSeq(Data(1), 1, 7) = <<91, 48, 57, 45, 48, 49, 45>>
    /\ Data(1)[22] = TAB

----------------------------------------------------------------------------
(* C9 *)

\* C9: the handle a call opened is closed before the call returns, on the
\* paths where the open or the write failed as well; between calls no
\* handle is held; a handle is held only between the open and the close;
\* a call that returns has done open, write, close in that order.
C9_HandleClosedOnReturn ==
    \A c \in Callers :
        /\ pc[c] \in {"idle", "open", "return", "unwound"} => ~handle[c]
        /\ handle[c] =>
               (opened[c] /\ pc[c] \in {"insert", "close", "flush", "fclose"})
        /\ pc[c] = "return" => steps[c] = <<"open", "write", "close">>
        /\ pc[c] = "idle" => steps[c] = <<>>

\* A call whose write failed is about to return: its handle is closed.
C9_Witness ==
    /\ pc[1] = "return"
    /\ opened[1]
    /\ "badbit" \in iostate[1]
    /\ ~handle[1]

----------------------------------------------------------------------------
(* C10 *)

\* The message field of a buffered line: what follows the timestamp, the
\* level and their tabs, up to the final newline.
MsgField(c) ==
    SubSeq(buf[c], Len(now[c]) + Len(level[c]) + 3, Len(buf[c]) - 1)

\* C10: each wide character of the message becomes exactly one byte, its
\* code mod 256, whatever its neighbours: the narrowed message and the
\* message field written are as long as the message, a message below 128
\* is unchanged, and wide characters equal mod 256 give the same byte.
C10_NarrowingMod256 ==
    \A c \in Callers :
        (pc[c] # "idle") =>
            /\ Len(strLogMsg[c]) = Len(logMsg[c])
            /\ \A i \in 1..Len(logMsg[c]) :
                   /\ strLogMsg[c][i] \in 0..255
                   /\ strLogMsg[c][i] = logMsg[c][i] % 256
            /\ (\A i \in 1..Len(logMsg[c]) : logMsg[c][i] < 128)
                   => strLogMsg[c] = logMsg[c]
            /\ \A i, j \in 1..Len(logMsg[c]) :
                   (logMsg[c][i] % 256 = logMsg[c][j] % 256)
                       => strLogMsg[c][i] = strLogMsg[c][j]
            /\ buf[c] # <<>> =>
                   (MsgField(c) = strLogMsg[c]
                    /\ Len(MsgField(c)) = Len(logMsg[c]))

\* 'A' and U+0141, distinct wide characters equal mod 256, were both
\* written as the byte 'A'.
C10_Witness ==
    /\ pc[1] = "return"
    /\ Succeeded(1)
    /\ logMsg[1] = <<65, 321>>
    /\ MsgField(1) = <<65, 65>>
    /\ Appended(1) = buf[1]

====
